---- MODULE Spec2Model ----
(***************************************************************************)
(* Model of the e-mail service: AsyncGmailTool.send_email (email_tool.py)  *)
(* and the deferred-delivery endpoints built on an AsyncIOScheduler        *)
(* (email_example.py).                                                     *)
(*                                                                         *)
(* Every coroutine runs on one asyncio event loop: a coroutine is atomic   *)
(* between two awaits, so each action below is the code between two        *)
(* awaits of one coroutine, or one callback of the loop.                   *)
(***************************************************************************)
EXTENDS Integers, Sequences, FiniteSets, TLC

\* ---------------------------------------------------------------- bounds
MaxCalls == 2      \* send_email invocations in flight at once
MaxFired == 1      \* of these, invocations started by the scheduler
MaxAtt == 2        \* attachment paths per request
MaxJobs == 2       \* jobs created over one run
MaxTime == 2       \* last instant of the wall clock (seconds)
MaxRegs == 1       \* registration requests being handled at once

\* ------------------------------------------------------------ input sets
Calls == 1..MaxCalls
JobIds == 1..MaxJobs

\* outcome of one awaited SMTP operation: no fault, a fault of class
\* aiosmtplib.errors.SMTPException, or any other Exception
Faults == {"ok", "smtp", "other"}

\* an attachment path either opens or open() raises
PathKinds == {"ok", "missing"}

\* email_tool.py lines 41-68: the instance built with the defaults, and one
\* built with a relay host and port of its own
DefaultTool == [smtp_server |-> "smtp.gmail.com", smtp_port |-> 587]

ToolConfigs == {DefaultTool, [smtp_server |-> "relay.example", smtp_port |-> 2525]}

\* the EmailRequest part of a ScheduledEmailRequest
Requests ==
    {[to_emails |-> <<"a@x.com">>, subject |-> "S", body |-> "B", html |-> FALSE],
     [to_emails |-> <<"b@y.org", "a@x.com">>, subject |-> "T", body |-> "<p>B</p>",
      html |-> TRUE]}

\* timezone names of a request; the last one is not in the tz database
TzNames == {"UTC", "Asia/Shanghai", "Mars/Olympus"}

SeqsUpTo(S, n) == UNION {[1..k -> S] : k \in 0..n}

\* attachment paths (pathlib.Path: the directory and the final component);
\* two of them end in the same file name
Paths ==
    {[dir |-> "", name |-> "a.pdf"], [dir |-> "docs", name |-> "a.pdf"],
     [dir |-> "docs", name |-> "b.png"], [dir |-> "tmp", name |-> "c.txt"],
     [dir |-> "tmp", name |-> "gone.txt"]}

\* the paths open() cannot open
Unreadable == {[dir |-> "tmp", name |-> "gone.txt"]}

Bodies == {"B", "<p>B</p>"}

VARIABLES
    tool,       \* the AsyncGmailTool instance: smtp_server, smtp_port
    calls,      \* calls[c]: the send_email invocation in slot c
    started,    \* scheduler.start() has run
    now,        \* wall clock
    jobs,       \* the scheduler's job store
    tasks,      \* jobs submitted to the executor, not run yet
    nextId,     \* number of job identifiers allocated so far
    hist,       \* what has happened to each job identifier
    resp,       \* the last HTTP response
    built,      \* the message the builder produced last
    awaiting    \* awaiting[c]: the registration request that awaits call c

vars == <<tool, calls, started, now, jobs, tasks, nextId, hist, resp, built, awaiting>>

\* everything but the tool and its calls
schedVars == <<started, now, jobs, tasks, nextId, hist, resp, built, awaiting>>

\* no registration request awaits the call
NoReg == [user |-> "none", time |-> 0]

\* no response waits to be written
NoResp == [op |-> "none", status |-> 0]

\* the response of a handler is written out before the loop runs the next
\* callback or resumes another coroutine
Responded == resp = NoResp

\* --------------------------------------------------- the message builder

NoMessage == [made |-> FALSE, body |-> "", html |-> FALSE, paths |-> <<>>,
              ok |-> FALSE, parts |-> <<>>]

KindOf(p) == IF p \in Unreadable THEN "missing" ELSE "ok"

\* a builder that tags every body as plain text
BodyPartPlain(body, html) ==
    [type |-> "text/plain", payload |-> body, disposition |-> "", filename |-> ""]

\* email_tool.py lines 106-107: MIMEText(body, content_type, "utf-8")
BodyPart(body, html) ==
    [type |-> IF html THEN "text/html" ELSE "text/plain", payload |-> body,
     disposition |-> "", filename |-> ""]

\* lines 113-119: MIMEApplication(f.read()) with its Content-Disposition;
\* the payload is the content of the file at path p
AttachmentPart(p) ==
    [type |-> "application/octet-stream", payload |-> p,
     disposition |-> "attachment", filename |-> p.name]

\* lines 110-120: the loop over the attachment paths; open() raises at the
\* first path that cannot be opened and nothing more is attached
RECURSIVE AttachAll(_, _)
AttachAll(parts, paths) ==
    IF paths = <<>>
    THEN [ok |-> TRUE, parts |-> parts]
    ELSE IF KindOf(Head(paths)) = "missing"
         THEN [ok |-> FALSE, parts |-> parts]
         ELSE AttachAll(Append(parts, AttachmentPart(Head(paths))), Tail(paths))

\* lines 100-120: the parts of the MIMEMultipart container, in the order
\* they are attached
BuildMessage(body, html, paths) == AttachAll(<<BodyPart(body, html)>>, paths)

\* the builder applied to one request
Build(body, html, paths) ==
    /\ built' = [made |-> TRUE, body |-> body, html |-> html, paths |-> paths,
                 ok |-> BuildMessage(body, html, paths).ok,
                 parts |-> BuildMessage(body, html, paths).parts]
    /\ UNCHANGED <<tool, calls, started, now, jobs, tasks, nextId, hist, resp, awaiting>>

\* ------------------------------------------------------------ send_email

\* a coroutine that has ended goes back to its caller at once: no other
\* callback runs between the last statement of send_email and the return
Returned == \A c \in Calls : calls[c].pc # "done"

IdleCall ==
    [pc |-> "idle", fired |-> FALSE, sessions |-> <<>>, connects |-> <<>>,
     pending |-> "none", outcome |-> "none", primFault |-> "none",
     txOk |-> 0, badPath |-> FALSE, quitFault |-> FALSE]

\* lines 111-113: open() raises on the first path that cannot be opened
AttachmentsOpen(atts) == \A i \in 1..Len(atts) : atts[i] = "ok"

\* lines 126-132: the session object of the primary strategy; nothing is
\* connected yet
PrimarySession == [host |-> tool.smtp_server, port |-> 465, conn |-> FALSE, quit |-> FALSE]

\* the fallback session with the default relay written in place of the
\* configured one
FallbackSessionGmail == [host |-> "smtp.gmail.com", port |-> 587, conn |-> FALSE, quit |-> FALSE]

\* a fallback that tries the implicit-TLS port a second time
FallbackSessionRetry465 == [host |-> tool.smtp_server, port |-> 465, conn |-> FALSE, quit |-> FALSE]

\* lines 150-155: the session object of the fallback strategy
FallbackSession == [host |-> tool.smtp_server, port |-> 587, conn |-> FALSE, quit |-> FALSE]

\* send_email without its outer handler: the exception reaches the caller
OuterExceptMissing(pending) == IF pending = "raise" THEN "raised" ELSE pending

\* lines 174-176: the outer handler turns an exception that reached it
\* into the result False
OuterExcept(pending) == IF pending = "raise" THEN "false" ELSE pending

\* the session the local variable smtp is bound to
Current(c) == Len(calls[c].sessions)

\* lines 136 and 157: connect() is awaited on the session smtp is bound to
Connecting(c) ==
    IF calls[c].pc \in {"p_connect", "f_connect"}
    THEN Append(calls[c].connects, calls[c].sessions[Current(c)].port)
    ELSE calls[c].connects

SetCurrent(c, field, val) ==
    [calls[c].sessions EXCEPT ![Current(c)] = [@ EXCEPT ![field] = val]]

\* the message built inside the inner try statement: the session object
\* exists already and the finally clause issues quit() on it
SendEmailStartBuildInside(c, fired, html, atts, buildFault) ==
    /\ Responded
    /\ Returned
    /\ calls[c].pc = "idle"
    /\ \A d \in Calls : d < c => calls[d].pc # "idle"
    /\ calls' = [calls EXCEPT ![c] =
          IF buildFault \/ ~AttachmentsOpen(atts)
          THEN [@ EXCEPT !.pc = "quit", !.fired = fired,
                         !.badPath = ~AttachmentsOpen(atts),
                         !.sessions = <<PrimarySession>>,
                         !.pending = "false"]
          ELSE [@ EXCEPT !.pc = "p_connect", !.fired = fired,
                         !.sessions = <<PrimarySession>>]]

\* lines 99-136: the synchronous prefix of send_email, up to the first
\* await.  fired: the caller is the scheduler.  buildFault: an exception
\* other than a failed open() while the message or the session object is
\* constructed.
SendEmailStart(c, fired, html, atts, buildFault) ==
    /\ Responded
    /\ Returned
    /\ calls[c].pc = "idle"
    /\ \A d \in Calls : d < c => calls[d].pc # "idle"
    /\ IF buildFault \/ ~AttachmentsOpen(atts)
       THEN calls' = [calls EXCEPT ![c] =
                [@ EXCEPT !.pc = "done", !.fired = fired,
                          !.badPath = ~AttachmentsOpen(atts),
                          !.pending = "raise",
                          !.outcome = OuterExcept("raise")]]
       ELSE calls' = [calls EXCEPT ![c] =
                [@ EXCEPT !.pc = "p_connect", !.fired = fired,
                          !.sessions = <<PrimarySession>>]]

\* a direct caller of the tool (an immediate send)
send_email(c, html, atts, buildFault) ==
    /\ SendEmailStart(c, FALSE, html, atts, buildFault)
    /\ UNCHANGED <<tool, schedVars>>

\* a primary strategy that runs into the fallback after its transmit
PrimaryNextThenFallback(pc) ==
    CASE pc = "p_connect" -> "p_login"
      [] pc = "p_login" -> "p_send"
      [] pc = "p_send" -> "f_connect"

\* lines 136-144: the order of the awaited operations of the primary strategy
PrimaryNext(pc) ==
    CASE pc = "p_connect" -> "p_login"
      [] pc = "p_login" -> "p_send"
      [] pc = "p_send" -> "quit"

\* a handler that starts the fallback on every Exception
IsAnyFault(f) == f # "ok"

\* line 146: the handler that starts the fallback takes SMTPException only
IsTransportFault(f) == f = "smtp"

\* lines 134-166: one awaited operation of the primary strategy
PrimaryStep(c, f) ==
    /\ Responded
    /\ Returned
    /\ calls[c].pc \in {"p_connect", "p_login", "p_send"}
    /\ calls' = [calls EXCEPT ![c] =
         CASE f = "ok" ->
                [@ EXCEPT !.pc = PrimaryNext(@),
                          !.connects = Connecting(c),
                          !.sessions = IF calls[c].pc = "p_connect"
                                       THEN SetCurrent(c, "conn", TRUE) ELSE @,
                          !.txOk = IF calls[c].pc = "p_send" THEN @ + 1 ELSE @,
                          !.pending = IF calls[c].pc = "p_send" THEN "true" ELSE @]
           [] f # "ok" /\ IsTransportFault(f) ->
                [@ EXCEPT !.pc = "f_connect",
                          !.connects = Connecting(c),
                          !.primFault = f,
                          !.sessions = Append(@, FallbackSession)]
           [] f # "ok" /\ ~IsTransportFault(f) ->
                [@ EXCEPT !.pc = "quit",
                          !.connects = Connecting(c),
                          !.primFault = f,
                          !.pending = "false"]]
    /\ UNCHANGED <<tool, schedVars>>

\* lines 157-162: the order of the awaited operations of the fallback
FallbackNext(pc) ==
    CASE pc = "f_connect" -> "f_starttls"
      [] pc = "f_starttls" -> "f_login"
      [] pc = "f_login" -> "f_send"
      [] pc = "f_send" -> "quit"

\* lines 146-162: one awaited operation inside the SMTPException handler;
\* an exception raised here leaves the inner try statement
FallbackStep(c, f) ==
    /\ Responded
    /\ Returned
    /\ calls[c].pc \in {"f_connect", "f_starttls", "f_login", "f_send"}
    /\ calls' = [calls EXCEPT ![c] =
         IF f = "ok"
         THEN [@ EXCEPT !.pc = FallbackNext(@),
                        !.connects = Connecting(c),
                        !.sessions = IF calls[c].pc = "f_connect"
                                     THEN SetCurrent(c, "conn", TRUE) ELSE @,
                        !.txOk = IF calls[c].pc = "f_send" THEN @ + 1 ELSE @,
                        !.pending = IF calls[c].pc = "f_send" THEN "true" ELSE @]
         ELSE [@ EXCEPT !.pc = "quit", !.connects = Connecting(c),
                        !.pending = "raise"]]
    /\ UNCHANGED <<tool, schedVars>>

\* a finally clause whose quit() is not guarded: its fault replaces the
\* pending return
QuitGuardUnprotected(pending, f) == IF f # "ok" THEN "raise" ELSE pending

\* lines 168-172: what is left pending once smtp.quit() has been awaited
QuitGuard(pending, f) == pending

\* a call of the scheduler that puts its job back in the store when the
\* result is False
QuitRetry(c, f) ==
    /\ Responded
    /\ Returned
    /\ calls[c].pc = "quit"
    /\ calls' = [calls EXCEPT ![c] =
         [@ EXCEPT !.pc = "done",
                   !.sessions = SetCurrent(c, "quit", TRUE),
                   !.quitFault = (f # "ok"),
                   !.outcome = OuterExcept(QuitGuard(calls[c].pending, f))]]
    /\ jobs' = IF calls[c].fired /\ calls[c].pending # "true"
               THEN jobs \cup {[id |-> CHOOSE j \in JobIds : hist.invoked[j] = 1,
                                run |-> now,
                                kwargs |-> CHOOSE r \in Requests : TRUE]}
               ELSE jobs
    /\ UNCHANGED <<tool, started, now, tasks, nextId, hist, resp, built, awaiting>>

\* a tool that keeps its session in an attribute of the instance: the finally
\* clause of a call quits the session of the call that bound it last
QuitShared(c, f) ==
    /\ Responded
    /\ Returned
    /\ calls[c].pc = "quit"
    /\ calls' = [d \in Calls |->
         IF d = c
         THEN [calls[c] EXCEPT !.pc = "done",
                   !.sessions = IF \A e \in Calls : e > c => calls[e].sessions = <<>>
                                THEN SetCurrent(c, "quit", TRUE) ELSE @,
                   !.quitFault = (f # "ok"),
                   !.outcome = OuterExcept(QuitGuard(calls[c].pending, f))]
         ELSE IF d > c /\ calls[d].sessions # <<>>
                   /\ \A e \in Calls : e > d => calls[e].sessions = <<>>
              THEN [calls[d] EXCEPT !.sessions = SetCurrent(d, "quit", TRUE)]
              ELSE calls[d]]
    /\ UNCHANGED <<tool, schedVars>>

\* lines 168-176: the finally clause, then the return or the outer handler
Quit(c, f) ==
    /\ Responded
    /\ Returned
    /\ calls[c].pc = "quit"
    /\ calls' = [calls EXCEPT ![c] =
         [@ EXCEPT !.pc = "done",
                   !.sessions = SetCurrent(c, "quit", TRUE),
                   !.quitFault = (f # "ok"),
                   !.outcome = OuterExcept(QuitGuard(calls[c].pending, f))]]
    /\ UNCHANGED <<tool, schedVars>>


\* lines 144, 162, 166, 176: the coroutine has returned; its frame is gone.
\* A call awaited by handle_user_registration returns into that handler.
Return(c) ==
    /\ Responded
    /\ calls[c].pc = "done"
    /\ awaiting[c] = NoReg
    /\ calls' = [calls EXCEPT ![c] = IdleCall]
    /\ UNCHANGED <<tool, schedVars>>

\* ------------------------------------------------------------- scheduler

\* the default misfire_grace_time of an AsyncIOScheduler job, in seconds
MisfireGrace == 1

NoHist == [cancelled |-> {}, early |-> {}, submitted |-> {}, missed |-> {},
           invoked |-> [j \in JobIds |-> 0]]

JobIdsIn(js) == {job.id : job \in js}

\* email_example.py line 228: pytz.timezone(name) raises UnknownTimeZoneError
\* for a name that is not in the tz database
KnownTz(name) == name \in {"UTC", "Asia/Shanghai"}

UtcOffset(name) == IF name = "Asia/Shanghai" THEN 8 * 3600 ELSE 0

\* line 229: tz.localize(naive) is the instant at which the wall clock of the
\* zone shows naive
Localize(name, naive) == naive - UtcOffset(name)

\* naive timestamps of the requests, and the instants they may resolve to
NaiveTimes == (0..MaxTime) \cup {8 * 3600}

Instants == 0..MaxTime

\* the requests: every accepted one whose trigger lies in Instants, and one
\* rejected one for each timezone name and each kind of timestamp
ScheduleInputs ==
    {x \in [req : Requests, naive : NaiveTimes, tz : TzNames, aware : BOOLEAN] :
        IF KnownTz(x.tz) /\ ~x.aware
        THEN Localize(x.tz, x.naive) \in Instants
        ELSE x.naive = 0 /\ ~x.req.html}

\* line 35
startup_event ==
    /\ Responded
    /\ Returned
    /\ ~started
    /\ started' = TRUE
    /\ UNCHANGED <<tool, calls, now, jobs, tasks, nextId, hist, resp, built, awaiting>>

\* an add_job that gives a job the identifier of the job created before it
NewJobIdReused == IF nextId = 0 THEN nextId + 1 ELSE nextId

\* the identifier add_job gives a new job: a fresh uuid4
NewJobId == nextId + 1

\* the status of the response to a request whose scheduling raised
ScheduleFailureStatus == 500

\* lines 211-250.  aware: the request's scheduled_time carries an offset, which
\* makes tz.localize raise ValueError
schedule_email(req, naive, tzname, aware) ==
    /\ Responded
    /\ Returned
    /\ started
    /\ IF ~KnownTz(tzname) \/ aware
       THEN /\ resp' = [op |-> "schedule", status |-> ScheduleFailureStatus]
            /\ UNCHANGED <<jobs, nextId>>
       ELSE /\ nextId < MaxJobs
            /\ jobs' = jobs \cup {[id |-> NewJobId, run |-> Localize(tzname, naive),
                                   kwargs |-> req]}
            /\ nextId' = nextId + 1
            /\ resp' = [op |-> "schedule", status |-> 200]
    /\ UNCHANGED <<tool, calls, started, now, tasks, hist, built, awaiting>>

\* line 305: scheduler.get_jobs() gives the jobs of the store by trigger
\* time; jobs of one trigger time come in the order of their identifiers,
\* which are random
Listings(js) ==
    {l \in [1..Cardinality(js) -> js] :
        \A i, k \in 1..Cardinality(js) :
            i < k => (l[i] # l[k] /\ l[i].run <= l[k].run)}

\* lines 308-312: run_time is the instant the ISO string of next_run_time
\* denotes
Entry(job) == [id |-> job.id, run_time |-> job.run, kwargs |-> job.kwargs]

\* lines 302-315
get_scheduled_jobs ==
    /\ Responded
    /\ Returned
    /\ started
    /\ \E l \in Listings(jobs) :
          resp' = [op |-> "list", status |-> 200,
                   jobs |-> [i \in 1..Cardinality(jobs) |-> Entry(l[i])]]
    /\ UNCHANGED <<tool, calls, started, now, jobs, tasks, nextId, hist, built, awaiting>>

\* a lookup that finds a job whatever the identifier
GetJobAny(js, id) == {[id |-> id, run |-> 0, kwargs |-> <<>>]}

\* line 321: scheduler.get_job(job_id)
GetJob(js, id) == {job \in js : job.id = id}

\* the trigger time of a job of the store
RunOf(js, id) == IF \E job \in js : job.id = id
                 THEN (CHOOSE job \in js : job.id = id).run
                 ELSE -1

\* a cancellation that leaves the store as it is
RemoveJobNothing(js, id) == js

\* line 325: scheduler.remove_job(job_id)
RemoveJob(js, id) == {job \in js : job.id # id}

\* lines 318-326
cancel_scheduled_job(id) ==
    /\ Responded
    /\ Returned
    /\ started
    /\ IF GetJob(jobs, id) = {}
       THEN /\ resp' = [op |-> "cancel", status |-> 404]
            /\ UNCHANGED <<jobs, hist>>
       ELSE /\ jobs' = RemoveJob(jobs, id)
            /\ hist' = [hist EXCEPT !.cancelled = @ \cup {id},
                                     !.early = @ \cup {j \in {id} : RunOf(jobs, id) > now}]
            /\ resp' = [op |-> "cancel", status |-> 200]
    /\ UNCHANGED <<tool, calls, started, now, tasks, nextId, built, awaiting>>

Due(js, t) == {job \in js : job.run <= t}

\* a fire that leaves the job in the store
AfterFireKeep(js, t) == js

\* what the store holds once the due jobs have been handed to the executor:
\* a date trigger has no second fire time, so each of them is removed
AfterFire(js, t) == {job \in js : job.run > t}

\* the scheduler's timer callback (armed by line 35 and by add_job, line 232):
\* every due job is submitted to the executor and leaves the store
ProcessJobs ==
    /\ Responded
    /\ Returned
    /\ started
    /\ Due(jobs, now) # {}
    /\ tasks' = tasks \cup Due(jobs, now)
    /\ hist' = [hist EXCEPT !.submitted = @ \cup JobIdsIn(Due(jobs, now))]
    /\ jobs' = AfterFire(jobs, now)
    /\ UNCHANGED <<tool, calls, started, now, nextId, resp, built, awaiting>>

\* the executor's task for a submitted job: a run time missed by more than
\* the grace time is skipped, otherwise gmail_tool.send_email(**kwargs) is
\* called (lines 232-242)
RunJob(id, c, buildFault) ==
    \E t \in tasks :
       /\ t.id = id
       /\ tasks' = tasks \ {t}
       /\ IF now - t.run > MisfireGrace
          THEN /\ Responded
               /\ Returned
               /\ hist' = [hist EXCEPT !.missed = @ \cup {t.id}]
               /\ UNCHANGED calls
          ELSE /\ SendEmailStart(c, TRUE, t.kwargs.html, <<>>, buildFault)
               /\ hist' = [hist EXCEPT !.invoked[t.id] = @ + 1]
       /\ UNCHANGED <<tool, started, now, jobs, nextId, resp, built, awaiting>>

\* the wall clock; the event loop runs a callback that is ready before the
\* next second begins
Tick ==
    /\ Responded
    /\ Returned
    /\ now < MaxTime
    /\ ~(started /\ Due(jobs, now) # {})
    /\ tasks = {}
    /\ now' = now + 1
    /\ UNCHANGED <<tool, calls, started, jobs, tasks, nextId, hist, resp, built, awaiting>>

\* the response of the last handler goes out
Respond ==
    /\ ~Responded
    /\ resp' = NoResp
    /\ UNCHANGED <<tool, calls, started, now, jobs, tasks, nextId, hist, built, awaiting>>

\* ---------------------------------------------------- user registration

\* email_example.py line 278: timedelta(days=3), in seconds
FollowUpDelay == 3 * 86400

\* line 29: AsyncIOScheduler() without a timezone works in the zone of the
\* host, and a run_date without an offset is read in that zone
SchedulerTz == "UTC"

\* the UserRegistrationEvent bodies (lines 54-58): a user who registers now,
\* and one who registered three days ago, whose follow-up is due at once
RegistrationEvents ==
    {[user |-> "new@x.com", time |-> 0],
     [user |-> "old@y.org", time |-> 0 - FollowUpDelay]}

\* lines 283-292: the keyword arguments of the follow-up job
FollowUpKwargs(event) ==
    [to_emails |-> <<event.user>>, subject |-> "How are you finding our service?",
     body |-> "<h2>Dear</h2>", html |-> TRUE]

\* lines 278-282: the follow-up job
FollowUpJob(event) ==
    [id |-> NewJobId, run |-> Localize(SchedulerTz, event.time + FollowUpDelay),
     kwargs |-> FollowUpKwargs(event)]

\* lines 254-275: the handler up to its await of the welcome send, which is
\* an HTML message without attachments
handle_user_registration(c, event, buildFault) ==
    /\ started
    /\ Cardinality({d \in Calls : awaiting[d] # NoReg}) < MaxRegs
    /\ nextId + Cardinality({d \in Calls : awaiting[d] # NoReg}) < MaxJobs
    /\ SendEmailStart(c, FALSE, TRUE, <<>>, buildFault)
    /\ awaiting' = [awaiting EXCEPT ![c] = event]
    /\ UNCHANGED <<tool, started, now, jobs, tasks, nextId, hist, resp, built>>

\* a handler that schedules the follow-up only when the welcome send worked
RegistrationResumeIfSent(c) ==
    /\ calls[c].pc = "done"
    /\ awaiting[c] # NoReg
    /\ jobs' = IF calls[c].outcome = "true"
               THEN jobs \cup {FollowUpJob(awaiting[c])}
               ELSE jobs
    /\ nextId' = nextId + 1
    /\ resp' = [op |-> "registration", status |-> 200,
                welcome_email_sent |-> calls[c].outcome,
                follow_up_scheduled |-> awaiting[c].time + FollowUpDelay]
    /\ calls' = [calls EXCEPT ![c] = IdleCall]
    /\ awaiting' = [awaiting EXCEPT ![c] = NoReg]
    /\ UNCHANGED <<tool, started, now, tasks, hist, built>>

\* lines 276-299: the welcome send has returned its result into the handler,
\* which adds the follow-up job and answers
RegistrationResume(c) ==
    /\ calls[c].pc = "done"
    /\ awaiting[c] # NoReg
    /\ jobs' = jobs \cup {FollowUpJob(awaiting[c])}
    /\ nextId' = nextId + 1
    /\ resp' = [op |-> "registration", status |-> 200,
                welcome_email_sent |-> calls[c].outcome,
                follow_up_scheduled |-> awaiting[c].time + FollowUpDelay]
    /\ calls' = [calls EXCEPT ![c] = IdleCall]
    /\ awaiting' = [awaiting EXCEPT ![c] = NoReg]
    /\ UNCHANGED <<tool, started, now, tasks, hist, built>>

\* ----------------------------------------------------------- the program

\* email_example.py lines 23-29: the application builds its tool with the
\* default relay and an empty scheduler that is not running yet
Init ==
    /\ tool = DefaultTool
    /\ calls = [c \in Calls |-> IdleCall]
    /\ started = FALSE
    /\ now = 0
    /\ jobs = {}
    /\ tasks = {}
    /\ nextId = 0
    /\ hist = NoHist
    /\ resp = NoResp
    /\ built = NoMessage
    /\ awaiting = [c \in Calls |-> NoReg]

\* the tool on its own, built with any of the configurations
InitSend ==
    /\ tool \in ToolConfigs
    /\ calls = [c \in Calls |-> IdleCall]
    /\ started = FALSE
    /\ now = 0
    /\ jobs = {}
    /\ tasks = {}
    /\ nextId = 0
    /\ hist = NoHist
    /\ resp = NoResp
    /\ built = NoMessage
    /\ awaiting = [c \in Calls |-> NoReg]

CallStep ==
    \/ \E c \in Calls, f \in Faults : PrimaryStep(c, f)
    \/ \E c \in Calls, f \in Faults : FallbackStep(c, f)
    \/ \E c \in Calls, f \in Faults : Quit(c, f)
    \/ \E c \in Calls : Return(c)

NextSend ==
    \/ \E c \in Calls, html \in BOOLEAN, atts \in SeqsUpTo(PathKinds, MaxAtt),
          bf \in BOOLEAN : send_email(c, html, atts, bf)
    \/ CallStep

SpecSend == InitSend /\ [][NextSend]_vars

\* the message builder on its own, applied to every request
NextBuild ==
    \E body \in Bodies, html \in BOOLEAN, paths \in SeqsUpTo(Paths, MaxAtt) :
        Build(body, html, paths)

SpecBuild == Init /\ [][NextBuild]_vars

\* the scheduling endpoints of the application and the sends they lead to
Next ==
    \/ startup_event
    \/ \E x \in ScheduleInputs : schedule_email(x.req, x.naive, x.tz, x.aware)
    \/ \E id \in JobIds : cancel_scheduled_job(id)
    \/ get_scheduled_jobs
    \/ ProcessJobs
    \/ \E id \in JobIds, c \in 1..MaxFired, bf \in BOOLEAN : RunJob(id, c, bf)
    \/ Tick
    \/ Respond
    \/ CallStep

Spec == Init /\ [][Next]_vars

\* the registration endpoint, the welcome sends it awaits and the follow-up
\* sends the scheduler fires, on a clock that stands still
NextReg ==
    \/ startup_event
    \/ \E c \in Calls, event \in RegistrationEvents, bf \in BOOLEAN :
          handle_user_registration(c, event, bf)
    \/ \E c \in Calls : RegistrationResume(c)
    \/ ProcessJobs
    \/ \E id \in JobIds, c \in 1..MaxFired, bf \in BOOLEAN : RunJob(id, c, bf)
    \/ Respond
    \/ CallStep

SpecReg == Init /\ [][NextReg]_vars

\* the same program on a loop that keeps running: a response is written, a
\* timer callback and an executor task that are ready are run, an awaited
\* SMTP operation ends (timeout=30, lines 131 and 154), and time passes
SpecLive ==
    /\ Init /\ [][Next]_vars
    /\ WF_vars(Respond)
    /\ SF_vars(ProcessJobs)
    /\ SF_vars(\E id \in JobIds, c \in 1..MaxFired, bf \in BOOLEAN : RunJob(id, c, bf))
    /\ SF_vars(CallStep)
    /\ SF_vars(Tick)

\* ------------------------------------------------------------ properties

Done(c) == calls[c].pc = "done"

PortsOf(c) == [i \in 1..Len(calls[c].sessions) |-> calls[c].sessions[i].port]

InTable(j) == j \in JobIdsIn(jobs)

\* the position of a call in the text of send_email, lines 99-176
Rank(pc) ==
    CASE pc = "idle" -> 0
      [] pc = "p_connect" -> 1
      [] pc = "p_login" -> 2
      [] pc = "p_send" -> 3
      [] pc = "f_connect" -> 4
      [] pc = "f_starttls" -> 5
      [] pc = "f_login" -> 6
      [] pc = "f_send" -> 7
      [] pc = "quit" -> 8
      [] pc = "done" -> 9

Created == 1..nextId

\* C1: a finished send_email has returned true or false, never let an
\* exception out, and has returned true only after a transmit step that
\* completed without fault.
C1_NeverRaises ==
    \A c \in Calls :
        /\ calls[c].outcome # "raised"
        /\ Done(c) => calls[c].outcome \in {"true", "false"}
        /\ calls[c].outcome = "true" => calls[c].txOk >= 1

\* a call that ended after a fault of the fallback and a fault of quit()
C1_Witness ==
    \E c \in Calls :
        /\ Done(c) /\ calls[c].primFault = "smtp" /\ calls[c].pending = "raise"
        /\ calls[c].quitFault /\ calls[c].outcome = "false"

\* C2: after an SMTPException of the primary strategy the call opens exactly
\* one more session, on port 587 of the configured host, and returns true
\* exactly when all four fallback steps, the transmit being the last,
\* completed without fault.
C2_FallbackOnce ==
    \A c \in Calls :
        (Done(c) /\ calls[c].primFault = "smtp") =>
            /\ PortsOf(c) = <<465, 587>>
            /\ \A i \in 1..2 : calls[c].sessions[i].host = tool.smtp_server
            /\ calls[c].outcome = (IF calls[c].txOk = 1 THEN "true" ELSE "false")
            /\ calls[c].outcome = "true" => calls[c].sessions[2].conn

\* the fallback carried the message after the primary strategy failed
C2_Witness ==
    \E c \in Calls :
        /\ Done(c) /\ calls[c].primFault = "smtp" /\ calls[c].outcome = "true"
        /\ tool.smtp_server = "relay.example"

\* C3: a session on port 587 exists only after an SMTPException of the
\* primary strategy; a call whose primary strategy raised another exception
\* returns false.
C3_FallbackOnlyOnSmtp ==
    \A c \in Calls :
        /\ (\E i \in 1..Len(calls[c].sessions) : calls[c].sessions[i].port = 587)
              => calls[c].primFault = "smtp"
        /\ (Done(c) /\ calls[c].primFault = "other") => calls[c].outcome = "false"
        /\ (Done(c) /\ calls[c].primFault = "none" /\ calls[c].sessions # <<>>)
              => /\ calls[c].outcome = "true"
                 /\ PortsOf(c) = <<465>>

\* the primary strategy raised an exception that is not an SMTPException
C3_Witness ==
    \E c \in Calls :
        /\ Done(c) /\ calls[c].primFault = "other"
        /\ PortsOf(c) = <<465>> /\ calls[c].sessions[1].conn

\* C4: a call given a path that cannot be opened has ended with false and has
\* created no session: no connect and no quit.
C4_BadAttachment ==
    \A c \in Calls :
        calls[c].badPath =>
            /\ Done(c)
            /\ calls[c].outcome = "false"
            /\ calls[c].sessions = <<>>

C4_Witness == \E c \in Calls : calls[c].badPath /\ Done(c)

\* C5: a finished call that created a session has issued quit() on the
\* session it ended with, and returns what was pending when the finally
\* clause began, whether quit() raised or not.
C5_TeardownKeepsOutcome ==
    \A c \in Calls :
        (Done(c) /\ calls[c].sessions # <<>>) =>
            /\ calls[c].sessions[Len(calls[c].sessions)].quit
            /\ calls[c].outcome = (IF calls[c].pending = "true" THEN "true" ELSE "false")

\* quit() raised after a transmit that succeeded
C5_Witness ==
    \E c \in Calls : Done(c) /\ calls[c].quitFault /\ calls[c].outcome = "true"

\* C6: when a call ends, quit() has been issued on every session whose
\* connection was established.
C6_AllReleased ==
    \A c \in Calls :
        Done(c) => \A i \in 1..Len(calls[c].sessions) :
                      calls[c].sessions[i].conn => calls[c].sessions[i].quit

\* C7: on every step, a job that was created is in the store unless it was
\* cancelled or submitted for execution, and a job is submitted only once its
\* trigger time has come; a cancel of a job whose trigger time lies ahead
\* answers 200 and removes it; a job cancelled that way is not in the store,
\* is not submitted and send_email has not been called for it.
C7_CancelBeforeTrigger ==
    [][/\ \A j \in 1..nextId' :
             j \notin (hist'.cancelled \cup hist'.submitted) => j \in JobIdsIn(jobs')
       /\ \A j \in JobIds :
             (j \in hist'.submitted /\ j \notin hist.submitted)
                 => (InTable(j) /\ RunOf(jobs, j) <= now)
       /\ \A j \in JobIds :
             (InTable(j) /\ RunOf(jobs, j) > now /\ cancel_scheduled_job(j))
                 => /\ resp' = [op |-> "cancel", status |-> 200]
                    /\ j \notin JobIdsIn(jobs')
                    /\ j \in hist'.early
       /\ \A j \in hist'.early :
             /\ j \notin JobIdsIn(jobs')
             /\ j \notin hist'.submitted
             /\ \A t \in tasks' : t.id # j
             /\ hist'.invoked[j] = 0]_vars

\* a job cancelled before its trigger time, and the clock past that time
C7_Witness ==
    /\ hist.early # {}
    /\ now = MaxTime
    /\ jobs = {} /\ tasks = {}

\* C8: a cancel of an identifier that is not in the store answers 404 and
\* leaves the store as it is.
C8_CancelAbsent ==
    [][\A j \in JobIds :
          (~InTable(j) /\ cancel_scheduled_job(j))
              => /\ resp' = [op |-> "cancel", status |-> 404]
                 /\ jobs' = jobs
                 /\ hist' = hist]_vars

\* every identifier has been given out, each job was fired or cancelled, and
\* the last cancel was answered 404
C8_Witness ==
    /\ resp = [op |-> "cancel", status |-> 404]
    /\ nextId = MaxJobs /\ jobs = {}
    /\ hist.submitted # {} /\ hist.cancelled # {}

\* C9: no job is both cancelled and fired; send_email has been called at
\* most once for a job, only after it fired, and never for a cancelled one; an
\* identifier that has left the store, by a cancel or by a fire, is not in the
\* store again, and every other identifier given out is still in it.
C9_OneTerminalTransition ==
    /\ hist.cancelled \cap hist.submitted = {}
    /\ \A j \in JobIds :
          /\ hist.invoked[j] <= 1
          /\ hist.invoked[j] = 1 => j \in hist.submitted
          /\ j \in hist.cancelled => hist.invoked[j] = 0
          /\ j \in (hist.cancelled \cup hist.submitted) => ~InTable(j)
    /\ \A j \in Created : ~InTable(j) => j \in (hist.cancelled \cup hist.submitted)

\* a cancel that came when the job was already due and won, next to a job
\* that fired
C9_Witness ==
    /\ (hist.cancelled \ hist.early) # {}
    /\ \E j \in JobIds : hist.invoked[j] = 1

\* C10: a schedule request with an unknown timezone name is answered with a
\* 4xx status and adds no job.
C10_InvalidTimezone ==
    [][\A x \in ScheduleInputs :
          (~KnownTz(x.tz) /\ schedule_email(x.req, x.naive, x.tz, x.aware))
              => /\ resp'.status \in 400..499
                 /\ jobs' = jobs]_vars

\* C14: every session of a call is opened to the host and to the port the
\* tool was constructed with.
C14_ConfiguredRelay ==
    \A c \in Calls : \A i \in 1..Len(calls[c].sessions) :
        /\ calls[c].sessions[i].host = tool.smtp_server
        /\ calls[c].sessions[i].port = tool.smtp_port

\* C15: the connection attempts of a call are an initial part of: port 465,
\* then port 587; and every step of a call that has started moves it forward
\* in the text of send_email, so it ends after at most nine steps.
C15_TwoAttempts ==
    [][\A c \in Calls :
          /\ calls'[c].connects \in {<<>>, <<465>>, <<465, 587>>}
          /\ Len(calls'[c].connects) <= Len(calls'[c].sessions)
          /\ (calls'[c] # calls[c] /\ calls[c].pc \notin {"idle", "done"})
                => Rank(calls'[c].pc) > Rank(calls[c].pc)]_vars

\* both attempts were made and both failed
C15_Witness ==
    \E c \in Calls :
        /\ Done(c) /\ calls[c].connects = <<465, 587>>
        /\ ~calls[c].sessions[1].conn /\ ~calls[c].sessions[2].conn
        /\ calls[c].outcome = "false"

\* C19: a call has at most one transmit that completed without fault; the
\* fallback is under way only while none has completed; and a finished call
\* has returned true exactly when one transmit completed.
C19_TransmitOnce ==
    \A c \in Calls :
        /\ calls[c].txOk <= 1
        /\ calls[c].pc \in {"f_connect", "f_starttls", "f_login", "f_send"}
              => calls[c].txOk = 0
        /\ Done(c) => (calls[c].outcome = "true" <=> calls[c].txOk = 1)

\* the primary session was connected, its strategy failed, and the fallback
\* transmitted the message
C19_Witness ==
    \E c \in Calls :
        /\ Done(c) /\ calls[c].primFault = "smtp" /\ calls[c].sessions[1].conn
        /\ calls[c].txOk = 1 /\ calls[c].outcome = "true"

\* C18: a message that was built has the body as its first part, of type
\* text/html when html is true and text/plain otherwise; no other part is a
\* text part; the parts after it are the attachments, one for each path, in
\* the order of the paths, each with the file name and the content of its
\* path; with no path the message has that one part.
C18_MessageParts ==
    (built.made /\ built.ok) =>
        /\ Len(built.parts) = 1 + Len(built.paths)
        /\ built.parts[1].type = (IF built.html THEN "text/html" ELSE "text/plain")
        /\ built.parts[1].payload = built.body
        /\ \A i \in 1..Len(built.paths) :
              /\ built.parts[i + 1].type = "application/octet-stream"
              /\ built.parts[i + 1].disposition = "attachment"
              /\ built.parts[i + 1].filename = built.paths[i].name
              /\ built.parts[i + 1].payload = built.paths[i]
        /\ built.paths = <<>> => Len(built.parts) = 1

\* an HTML message with two attachments of the same file name, taken from
\* two directories
C18_Witness ==
    /\ built.made /\ built.ok /\ built.html
    /\ Len(built.paths) = 2
    /\ built.paths[1].name = built.paths[2].name
    /\ built.paths[1] # built.paths[2]

\* C11: on every step, a listing asked for when no job has fired or been
\* cancelled has one entry for each successful schedule call; a listing has
\* one entry for each job of the store, with the job's identifier, trigger
\* time and payload, and no identifier twice; an accepted schedule request
\* puts a job with a new identifier, the trigger time resolved from the
\* request and the payload of the request in the store; a job that stays in
\* the store keeps its trigger time and payload; and no two jobs of the
\* store have one identifier.
C11_ListMatchesStore ==
    [][/\ resp'.op = "list" =>
            /\ (hist.cancelled \cup hist.submitted = {})
                  => Len(resp'.jobs) = nextId
            /\ Len(resp'.jobs) = Cardinality(jobs)
            /\ \A i, k \in 1..Len(resp'.jobs) :
                  i # k => resp'.jobs[i].id # resp'.jobs[k].id
            /\ \A i \in 1..Len(resp'.jobs) :
                  [id |-> resp'.jobs[i].id, run |-> resp'.jobs[i].run_time,
                   kwargs |-> resp'.jobs[i].kwargs] \in jobs
       /\ resp'.op = "schedule" =>
            \A x \in ScheduleInputs :
               (KnownTz(x.tz) /\ ~x.aware
                   /\ schedule_email(x.req, x.naive, x.tz, x.aware))
                 => /\ nextId' \notin JobIdsIn(jobs)
                    /\ [id |-> nextId', run |-> Localize(x.tz, x.naive),
                         kwargs |-> [to_emails |-> x.req.to_emails,
                                     subject |-> x.req.subject,
                                     body |-> x.req.body,
                                     html |-> x.req.html]] \in jobs'
                    /\ resp'.status = 200
       /\ jobs' # jobs =>
            /\ \A job \in jobs : job.id \in JobIdsIn(jobs') => job \in jobs'
            /\ Cardinality(JobIdsIn(jobs')) = Cardinality(jobs')]_vars

\* a listing of two jobs of one trigger time and different payloads, asked
\* for before any fire or cancel
C11_Witness ==
    /\ resp.op = "list" /\ Len(resp.jobs) = MaxJobs /\ nextId = MaxJobs
    /\ hist.cancelled \cup hist.submitted = {}
    /\ resp.jobs[1].run_time = resp.jobs[2].run_time
    /\ resp.jobs[1].kwargs # resp.jobs[2].kwargs
    /\ resp.jobs[1].id > resp.jobs[2].id

\* C12: a job that is in the store is in the end cancelled, or send_email
\* has been called for it once and it is in the store no more.
C12_EventuallyFires ==
    \A j \in JobIds :
        InTable(j) ~> (j \in hist.cancelled \/ (hist.invoked[j] = 1 /\ ~InTable(j)))

\* C13: once the executor has run the task of a job that fired, send_email
\* has been called for that job.
C13_PastJobFires ==
    \A j \in hist.submitted :
        (\A t \in tasks : t.id # j) => hist.invoked[j] = 1

\* C17: on every step, a job send_email was called for is not in the store
\* and was called for once, whatever the call returned; the step that ends
\* a call of the scheduler with False leaves its job out of the store and
\* out of the executor and, when it is a step of send_email, changes nothing
\* of the scheduler; the step that takes the result of a call of the
\* scheduler changes nothing but the call; and the answers to cancel, list
\* and schedule are given by the store and the request alone.
C17_SilentFailure ==
    [][/\ \A j \in JobIds :
            hist'.invoked[j] >= 1
              => (j \notin JobIdsIn(jobs') /\ hist'.invoked[j] = 1)
       /\ calls' # calls =>
            \A c \in Calls :
               /\ (calls[c].pc # "done" /\ calls'[c].pc = "done"
                      /\ calls'[c].fired /\ calls'[c].outcome = "false")
                    => /\ \A j \in JobIds :
                             hist'.invoked[j] >= 1 => \A t \in tasks' : t.id # j
                       /\ calls[c].pc # "idle" => schedVars' = schedVars
               /\ (calls[c].pc = "done" /\ calls[c].fired /\ calls'[c] # calls[c])
                    => (calls'[c] = IdleCall /\ schedVars' = schedVars)
       /\ resp'.op = "cancel"
            => \A j \in JobIds :
                  cancel_scheduled_job(j)
                    => resp'.status = (IF InTable(j) THEN 200 ELSE 404)
       /\ resp'.op = "list"
            => {resp'.jobs[i] : i \in 1..Len(resp'.jobs)} = {Entry(job) : job \in jobs}
       /\ resp'.op = "schedule"
            => \A x \in ScheduleInputs :
                  schedule_email(x.req, x.naive, x.tz, x.aware)
                    => resp'.status = (IF KnownTz(x.tz) /\ ~x.aware
                                       THEN 200 ELSE ScheduleFailureStatus)]_vars

\* a call of the scheduler that ended with False after both strategies
\* failed, with another job still in the store
C17_Witness ==
    \E c \in Calls :
        /\ calls[c].fired /\ Done(c) /\ calls[c].outcome = "false"
        /\ calls[c].connects = <<465, 587>>
        /\ jobs # {}

\* C20: handle_user_registration adds exactly one follow-up job, with a new
\* identifier, the user's address and the trigger time registration_time plus
\* three days, on every call: the welcome send it awaits always returns a
\* value, true or false, the handler then adds the job whichever it is, and
\* answers 200 with that value as welcome_email_sent.
C20_FollowUpAlwaysScheduled ==
    [][\A c \in Calls :
          /\ (awaiting[c] # NoReg /\ calls[c].pc = "done") =>
                (calls[c].outcome \in {"true", "false"} /\ awaiting'[c] = NoReg)
          /\ (awaiting[c] # NoReg /\ awaiting'[c] # awaiting[c]) =>
                /\ calls[c].pc = "done"
                /\ Cardinality(jobs') = Cardinality(jobs) + 1
                /\ \E job \in jobs' :
                      /\ jobs' = jobs \cup {job}
                      /\ job.id \notin JobIdsIn(jobs) \cup JobIdsIn(tasks) \cup hist.submitted
                      /\ job.run = Localize(SchedulerTz, awaiting[c].time + FollowUpDelay)
                      /\ job.kwargs.to_emails = <<awaiting[c].user>>
                      /\ job.kwargs.html
                /\ resp'.op = "registration"
                /\ resp'.status = 200
                /\ resp'.welcome_email_sent = calls[c].outcome
                /\ resp'.follow_up_scheduled = awaiting[c].time + FollowUpDelay
          /\ (awaiting[c] = NoReg /\ awaiting'[c] # NoReg) =>
                (calls[c].pc = "idle" /\ jobs' = jobs)]_vars

\* a registration whose welcome send failed has been answered, and its
\* follow-up job is in the store
C20_Witness ==
    /\ resp.op = "registration"
    /\ resp.welcome_email_sent = "false"
    /\ \E job \in jobs : /\ job.run = Localize(SchedulerTz, resp.follow_up_scheduled)
                          /\ job.id = nextId
                          /\ job.kwargs.to_emails = <<"new@x.com">>

\* C16: send_email calls in flight together, awaited by a handler or fired by
\* the scheduler, do not touch each other: a step changes the record and the
\* sessions of one call at most, a call keeps the sessions it created and
\* acts on the one its own smtp variable is bound to, and the result of a
\* call is true exactly when a transmit on its own sessions completed.
C16_CallsIsolated ==
    [][\A c \in Calls :
          /\ calls'[c] # calls[c] => \A d \in Calls \ {c} : calls'[d] = calls[d]
          /\ (calls[c].pc \notin {"idle", "done"} /\ calls'[c] # calls[c]) =>
                /\ Len(calls'[c].sessions) >= Len(calls[c].sessions)
                /\ \A i \in 1..Len(calls[c].sessions) :
                      i # Current(c) => calls'[c].sessions[i] = calls[c].sessions[i]
                /\ calls'[c].fired = calls[c].fired
          /\ (calls[c].pc # "done" /\ calls'[c].pc = "done") =>
                calls'[c].outcome = (IF calls'[c].txOk = 1 THEN "true" ELSE "false")]_vars

\* a job the scheduler fired has failed on both of its own sessions while the
\* welcome send of a registration, in flight with it, has transmitted on its
\* first session
C16_Witness ==
    \E c, d \in Calls :
       /\ calls[c].fired /\ Done(c) /\ calls[c].outcome = "false"
       /\ Len(calls[c].sessions) = 2
       /\ ~calls[d].fired /\ awaiting[d] # NoReg
       /\ calls[d].pc = "quit" /\ calls[d].txOk = 1
       /\ Len(calls[d].sessions) = 1

====
